---- MODULE Spec2Model ----
(***************************************************************************)
(* A model of nuttx/net/net-close.c: net_close(), the disconnect           *)
(* coordinator netclose_disconnect() that runs in task context, and the    *)
(* event notifier netclose_interrupt() that the uIP engine runs in         *)
(* interrupt context.                                                      *)
(*                                                                         *)
(* Task context: every task is inside at most one net_close() call; one    *)
(* step of a task is one statement group of the C code (one call to a      *)
(* collaborator, or the assignments between two calls).  A task that holds *)
(* the interrupt mask (irqsave) excludes the event context and every other *)
(* task until it restores the mask or blocks in sem_wait (the context      *)
(* switch installs the interrupt state of the task switched to).           *)
(***************************************************************************)
EXTENDS Integers, Sequences, FiniteSets, TLC

VARIABLES
  socks,     \* the socket table: descriptor -> struct socket
  conns,     \* the connection records: s_conn -> struct uip_conn (the fields used)
  dev,       \* the device structure: d_len
  irq,       \* the task that holds the interrupt mask, or NoTask
  pc,        \* each task's position in net_close / netclose_disconnect
  sockfd,    \* each task's argument of net_close
  ret,       \* each task's return value of net_close
  errno,     \* each task's errno
  sem,       \* each task's state.cl_sem (the wait context on its stack)
  log,       \* each task's calls to collaborators, in order (history)
  seen,      \* the kinds of event the notifier saw on the task's context (history)
  ev         \* the last invocation of the notifier: flags in, flags out (history)

vars == <<socks, conns, dev, irq, pc, sockfd, ret, errno, sem, log, seen, ev>>

(***************************************************************************)
(* Bounds of the model.                                                    *)
(***************************************************************************)
NumTasks == 2
NumSocks == 2
MaxPktLen == 1

Tasks == 1..NumTasks
Fds == 0..(NumSocks - 1)
\* descriptors handed to net_close: the table's, and one that is out of range
FdInputs == 0..NumSocks

(***************************************************************************)
(* Program constants.                                                      *)
(***************************************************************************)
NULL == 0
NoTask == 0

UIP_ACKDATA == 1
UIP_NEWDATA == 2
UIP_POLL == 8
UIP_CLOSE == 16
UIP_ABORT == 32

\* uint8 flags
Uint8 == 0..255

(***************************************************************************)
(* Bitwise operations on naturals (the C operators &, | and ~ on the       *)
(* promoted operands; a uint8 result keeps 8 bits).                        *)
(***************************************************************************)
RECURSIVE BitAnd(_, _)
BitAnd(a, b) ==
  IF a = 0 \/ b = 0 THEN 0
  ELSE (IF a % 2 = 1 /\ b % 2 = 1 THEN 1 ELSE 0) + 2 * BitAnd(a \div 2, b \div 2)

RECURSIVE BitOr(_, _)
BitOr(a, b) ==
  IF a = 0 THEN b
  ELSE IF b = 0 THEN a
  ELSE (IF a % 2 = 1 \/ b % 2 = 1 THEN 1 ELSE 0) + 2 * BitOr(a \div 2, b \div 2)

\* ~m of an int, cut to the 8 bits a uint8 operand can have
BitNot8(m) == 255 - (m % 256)

(***************************************************************************)
(* Types.                                                                  *)
(***************************************************************************)
\* a test of the connected state that every socket passes
_SS_ISCONNECTED_always(s_flags) == TRUE

\* _SS_ISCONNECTED(psock->s_flags)
_SS_ISCONNECTED(s_flags) == "_SF_CONNECTED" \in s_flags

\* the event set netclose_disconnect asks for: UIP_NEWDATA|UIP_CLOSE|UIP_ABORT
CloseEvents == BitOr(UIP_NEWDATA, BitOr(UIP_CLOSE, UIP_ABORT))

\* a connection record with nothing attached
ConnIdle(listening) ==
  [data_flags |-> 0, data_private |-> NULL, data_event |-> "NULL",
   listening |-> listening, allocated |-> TRUE]

\* struct tcp_close_s: cl_sem (cl_psock is the task's own psock)
SemNone == [state |-> "none", count |-> 0, posts |-> 0]

\* the sockets a descriptor can name when net_close is called
SockProfiles ==
  { [s_type |-> "SOCK_STREAM", s_crefs |-> 1, s_flags |-> f, listening |-> l] :
      f \in {{}, {"_SF_CONNECTED"}}, l \in BOOLEAN }
  \cup { [s_type |-> "SOCK_STREAM", s_crefs |-> 0, s_flags |-> {}, listening |-> FALSE] }
  \cup { [s_type |-> ty, s_crefs |-> 1, s_flags |-> {}, listening |-> FALSE] :
      ty \in {"SOCK_DGRAM", "SOCK_RAW"} }

\* the events the engine reports to a connection's callback
EngineEvents ==
  { UIP_NEWDATA, UIP_POLL, UIP_CLOSE, UIP_ABORT, BitOr(UIP_NEWDATA, UIP_CLOSE) }

\* no invocation of the notifier recorded
EvNone == [called |-> FALSE]

(***************************************************************************)
(* sockfd_socket: the socket a descriptor names, or none.                  *)
(***************************************************************************)
sockfd_socket(fd) == IF fd \in Fds THEN fd ELSE -1

\* the validation with s_crefs < 0 for s_crefs <= 0: a released socket passes
ValidSock_released(psock) == psock # -1 /\ ~(socks[psock].s_crefs < 0)

\* net_close's validation: psock and psock->s_crefs > 0
ValidSock(psock) == psock # -1 /\ ~(socks[psock].s_crefs <= 0)

\* the switch with SOCK_DGRAM falling into the SOCK_STREAM case
CloseKind_fallthrough(psock) ==
  IF ~ValidSock(psock) THEN "errout"
  ELSE IF socks[psock].s_type \in {"SOCK_STREAM", "SOCK_DGRAM"} THEN "stream"
  ELSE "errout"

\* the switch on psock->s_type
CloseKind(psock) ==
  IF ~ValidSock(psock) THEN "errout"
  ELSE IF socks[psock].s_type = "SOCK_STREAM" THEN "stream"
  ELSE IF socks[psock].s_type = "SOCK_DGRAM" THEN "dgram"
  ELSE "errout"

\* netclose_interrupt with the else branch attached to the outer if: events
\* are dropped and a retry is asked for when no wait context is attached
netclose_interrupt_noctx(d, conn, flags) ==
  LET pstate == conn.data_private IN
  IF pstate # NULL /\ BitAnd(flags, BitOr(UIP_CLOSE, UIP_ABORT)) # 0
  THEN [dev |-> d,
        conn |-> [conn EXCEPT !.data_flags = 0, !.data_private = NULL,
                              !.data_event = "NULL"],
        post |-> pstate,
        ret |-> flags]
  ELSE [dev |-> [d EXCEPT !.d_len = 0],
        conn |-> conn,
        post |-> NoTask,
        ret |-> BitOr(BitAnd(flags, BitNot8(UIP_NEWDATA)), UIP_CLOSE)]

\* netclose_interrupt that keeps UIP_NEWDATA in the flags it returns
netclose_interrupt_keepdata(d, conn, flags) ==
  LET pstate == conn.data_private IN
  IF pstate # NULL
  THEN IF BitAnd(flags, BitOr(UIP_CLOSE, UIP_ABORT)) # 0
       THEN [dev |-> d,
             conn |-> [conn EXCEPT !.data_flags = 0, !.data_private = NULL,
                                   !.data_event = "NULL"],
             post |-> pstate,
             ret |-> flags]
       ELSE [dev |-> [d EXCEPT !.d_len = 0],
             conn |-> conn,
             post |-> NoTask,
             ret |-> BitOr(flags, UIP_CLOSE)]
  ELSE [dev |-> d, conn |-> conn, post |-> NoTask, ret |-> flags]

\* netclose_interrupt that takes only UIP_CLOSE for the end of the connection
netclose_interrupt_noabort(d, conn, flags) ==
  LET pstate == conn.data_private IN
  IF pstate # NULL
  THEN IF BitAnd(flags, UIP_CLOSE) # 0
       THEN [dev |-> d,
             conn |-> [conn EXCEPT !.data_flags = 0, !.data_private = NULL,
                                   !.data_event = "NULL"],
             post |-> pstate,
             ret |-> flags]
       ELSE [dev |-> [d EXCEPT !.d_len = 0],
             conn |-> conn,
             post |-> NoTask,
             ret |-> BitOr(BitAnd(flags, BitNot8(UIP_NEWDATA)), UIP_CLOSE)]
  ELSE [dev |-> d, conn |-> conn, post |-> NoTask, ret |-> flags]

\* netclose_interrupt that tests the flags against every event asked for
\* (data_flags) instead of UIP_CLOSE|UIP_ABORT
netclose_interrupt_anyevent(d, conn, flags) ==
  LET pstate == conn.data_private IN
  IF pstate # NULL
  THEN IF BitAnd(flags, BitOr(UIP_NEWDATA, BitOr(UIP_CLOSE, UIP_ABORT))) # 0
       THEN [dev |-> d,
             conn |-> [conn EXCEPT !.data_flags = 0, !.data_private = NULL,
                                   !.data_event = "NULL"],
             post |-> pstate,
             ret |-> flags]
       ELSE [dev |-> [d EXCEPT !.d_len = 0],
             conn |-> conn,
             post |-> NoTask,
             ret |-> BitOr(BitAnd(flags, BitNot8(UIP_NEWDATA)), UIP_CLOSE)]
  ELSE [dev |-> d, conn |-> conn, post |-> NoTask, ret |-> flags]

\* netclose_interrupt that detaches the context and forgets sem_post
netclose_interrupt_nopost(d, conn, flags) ==
  LET pstate == conn.data_private IN
  IF pstate # NULL
  THEN IF BitAnd(flags, BitOr(UIP_CLOSE, UIP_ABORT)) # 0
       THEN [dev |-> d,
             conn |-> [conn EXCEPT !.data_flags = 0, !.data_private = NULL,
                                   !.data_event = "NULL"],
             post |-> NoTask,
             ret |-> flags]
       ELSE [dev |-> [d EXCEPT !.d_len = 0],
             conn |-> conn,
             post |-> NoTask,
             ret |-> BitOr(BitAnd(flags, BitNot8(UIP_NEWDATA)), UIP_CLOSE)]
  ELSE [dev |-> d, conn |-> conn, post |-> NoTask, ret |-> flags]

\* the notifier posting the semaphore on every event that finds a context
netclose_interrupt_postfirst(d, conn, flags) ==
  LET pstate == conn.data_private IN
  IF pstate # NULL
  THEN IF BitAnd(flags, BitOr(UIP_CLOSE, UIP_ABORT)) # 0
       THEN [dev |-> d,
             conn |-> [conn EXCEPT !.data_flags = 0,
                                   !.data_private = NULL,
                                   !.data_event = "NULL"],
             post |-> pstate,
             ret |-> flags]
       ELSE [dev |-> [d EXCEPT !.d_len = 0],
             conn |-> conn,
             post |-> pstate,
             ret |-> BitOr(BitAnd(flags, BitNot8(UIP_NEWDATA)), UIP_CLOSE)]
  ELSE [dev |-> d, conn |-> conn, post |-> NoTask, ret |-> flags]

\* the notifier leaving data_private in place when it posts
netclose_interrupt_keepctx(d, conn, flags) ==
  LET pstate == conn.data_private IN
  IF pstate # NULL
  THEN IF BitAnd(flags, BitOr(UIP_CLOSE, UIP_ABORT)) # 0
       THEN [dev |-> d,
             conn |-> [conn EXCEPT !.data_flags = 0,
                                   !.data_event = "NULL"],
             post |-> pstate,
             ret |-> flags]
       ELSE [dev |-> [d EXCEPT !.d_len = 0],
             conn |-> conn,
             post |-> NoTask,
             ret |-> BitOr(BitAnd(flags, BitNot8(UIP_NEWDATA)), UIP_CLOSE)]
  ELSE [dev |-> d, conn |-> conn, post |-> NoTask, ret |-> flags]

\* the notifier clearing data_private only when it posts
netclose_interrupt_noclear(d, conn, flags) ==
  LET pstate == conn.data_private IN
  IF pstate # NULL
  THEN IF BitAnd(flags, BitOr(UIP_CLOSE, UIP_ABORT)) # 0
       THEN [dev |-> d,
             conn |-> [conn EXCEPT !.data_private = NULL],
             post |-> pstate,
             ret |-> flags]
       ELSE [dev |-> [d EXCEPT !.d_len = 0],
             conn |-> conn,
             post |-> NoTask,
             ret |-> BitOr(BitAnd(flags, BitNot8(UIP_NEWDATA)), UIP_CLOSE)]
  ELSE [dev |-> d, conn |-> conn, post |-> NoTask, ret |-> flags]

(***************************************************************************)
(* netclose_interrupt(dev, conn, flags): the device and the connection     *)
(* record it leaves, the wait context whose semaphore it posts (NoTask:    *)
(* none) and the flags it returns.                                         *)
(***************************************************************************)
netclose_interrupt(d, conn, flags) ==
  LET pstate == conn.data_private IN
  IF pstate # NULL
  THEN IF BitAnd(flags, BitOr(UIP_CLOSE, UIP_ABORT)) # 0
       THEN [dev |-> d,
             conn |-> [conn EXCEPT !.data_flags = 0,
                                   !.data_private = NULL,
                                   !.data_event = "NULL"],
             post |-> pstate,
             ret |-> flags]
       ELSE [dev |-> [d EXCEPT !.d_len = 0],
             conn |-> conn,
             post |-> NoTask,
             ret |-> BitOr(BitAnd(flags, BitNot8(UIP_NEWDATA)), UIP_CLOSE)]
  ELSE [dev |-> d, conn |-> conn, post |-> NoTask, ret |-> flags]

\* sem_post(&pstate->cl_sem); a post to a semaphore that is not initialised
\* (never initialised, or destroyed) is kept as such
sem_post(s) ==
  [s EXCEPT !.count = @ + 1, !.posts = @ + 1,
            !.state = IF @ = "init" THEN "init" ELSE "posted_dead"]

IsTerminal(flags) == BitAnd(flags, BitOr(UIP_CLOSE, UIP_ABORT)) # 0

(***************************************************************************)
(* One invocation of the notifier by the engine on connection c, with a    *)
(* frame of len bytes in the device buffer.                                *)
(***************************************************************************)
Deliver(c, flags, len) ==
  LET r == netclose_interrupt([dev EXCEPT !.d_len = len], conns[c], flags)
      p == conns[c].data_private
  IN /\ conns' = [conns EXCEPT ![c] = r.conn]
     /\ dev' = r.dev
     /\ sem' = IF r.post # NoTask THEN [sem EXCEPT ![r.post] = sem_post(@)] ELSE sem
     /\ seen' = IF p # NULL
                THEN [seen EXCEPT ![p] = @ \cup {IF IsTerminal(flags) THEN "terminal" ELSE "other"}]
                ELSE seen

\* the same, recorded: what the notifier was given and what it returned
DeliverRecorded(c, flags, len) ==
  /\ Deliver(c, flags, len)
  /\ ev' = [called |-> TRUE, flags |-> flags,
            ret |-> netclose_interrupt([dev EXCEPT !.d_len = len], conns[c], flags).ret,
            c |-> c, conn |-> conns[c], d_len |-> len, sem |-> sem]

(***************************************************************************)
(* The state after construction: a socket table, no close in progress.     *)
(***************************************************************************)
Init ==
  /\ \E prof \in [Fds -> SockProfiles] :
       /\ socks = [fd \in Fds |->
                     [s_type |-> prof[fd].s_type, s_crefs |-> prof[fd].s_crefs,
                      s_flags |-> prof[fd].s_flags, s_conn |-> fd]]
       /\ conns = [c \in Fds |-> ConnIdle(prof[c].listening)]
  /\ dev = [d_len |-> 0]
  /\ irq = NoTask
  /\ pc = [t \in Tasks |-> "idle"]
  /\ sockfd = [t \in Tasks |-> -1]
  /\ ret = [t \in Tasks |-> "none"]
  /\ errno = [t \in Tasks |-> "none"]
  /\ sem = [t \in Tasks |-> SemNone]
  /\ log = [t \in Tasks |-> << >>]
  /\ seen = [t \in Tasks |-> {}]
  /\ ev = EvNone

\* the task runs: nobody else holds the interrupt mask
Runs(t) == irq \in {NoTask, t}

InClose(t) == pc[t] \notin {"idle", "done"}

Psock(t) == sockfd_socket(sockfd[t])
Conn(t) == socks[Psock(t)].s_conn

Goto(t, l) == pc' = [pc EXCEPT ![t] = l]
Call(t, f) == log' = [log EXCEPT ![t] = Append(@, f)]

(***************************************************************************)
(* net_close(sockfd), up to the switch: lines 210-223, and errout.         *)
(***************************************************************************)
NetCloseCall(t, fd) ==
  /\ pc[t] = "idle"
  /\ Runs(t)
  /\ sockfd' = [sockfd EXCEPT ![t] = fd]
  /\ LET kind == CloseKind(sockfd_socket(fd)) IN
       IF kind = "errout"
       THEN /\ errno' = [errno EXCEPT ![t] = "EBADF"]
            /\ ret' = [ret EXCEPT ![t] = "ERROR"]
            /\ Goto(t, "done")
       ELSE /\ Goto(t, IF kind = "stream" THEN "uip_unlisten" ELSE "uip_udpfree")
            /\ UNCHANGED <<errno, ret>>
  /\ UNCHANGED <<socks, conns, dev, irq, sem, log, seen, ev>>

\* net_close without its call of uip_unlisten
UipUnlisten_missing(t) ==
  /\ pc[t] = "uip_unlisten"
  /\ Runs(t)
  /\ Goto(t, "irqsave")
  /\ UNCHANGED <<socks, conns, dev, irq, sockfd, ret, errno, sem, log, seen, ev>>

\* uip_unlisten(conn): no longer accepting connections
UipUnlisten(t) ==
  /\ pc[t] = "uip_unlisten"
  /\ Runs(t)
  /\ conns' = [conns EXCEPT ![Conn(t)].listening = FALSE]
  /\ Call(t, "uip_unlisten")
  /\ Goto(t, "irqsave")
  /\ UNCHANGED <<socks, dev, irq, sockfd, ret, errno, sem, seen, ev>>

(***************************************************************************)
(* netclose_disconnect(psock)                                              *)
(***************************************************************************)
\* the coordinator without the interrupt mask: irqsave that masks nothing
IrqSave_nomask(t) ==
  /\ pc[t] = "irqsave"
  /\ irq = NoTask
  /\ Call(t, "irqsave")
  /\ Goto(t, "connected")
  /\ UNCHANGED <<socks, conns, dev, irq, sockfd, ret, errno, sem, seen, ev>>

\* flags = irqsave()
IrqSave(t) ==
  /\ pc[t] = "irqsave"
  /\ irq = NoTask
  /\ irq' = t
  /\ Call(t, "irqsave")
  /\ Goto(t, "connected")
  /\ UNCHANGED <<socks, conns, dev, sockfd, ret, errno, sem, seen, ev>>

\* the set-up of the wait context moved above the test of the connected state
Attach_hoisted(t) ==
  /\ pc[t] = "connected"
  /\ Runs(t)
  /\ sem' = [sem EXCEPT ![t] = [state |-> "init", count |-> 0, posts |-> 0]]
  /\ conns' = [conns EXCEPT ![Conn(t)].data_flags = CloseEvents,
                            ![Conn(t)].data_private = t]
  /\ Call(t, "sem_init")
  /\ Goto(t, IF _SS_ISCONNECTED(socks[Psock(t)].s_flags)
             THEN "data_event" ELSE "irqrestore")
  /\ UNCHANGED <<socks, dev, irq, sockfd, ret, errno, seen, ev>>

\* if (_SS_ISCONNECTED(psock->s_flags)): sem_init, and the assignments of
\* data_flags and data_private (lines 156-165)
Attach(t) ==
  /\ pc[t] = "connected"
  /\ Runs(t)
  /\ IF _SS_ISCONNECTED(socks[Psock(t)].s_flags)
     THEN /\ sem' = [sem EXCEPT ![t] = [state |-> "init", count |-> 0, posts |-> 0]]
          /\ conns' = [conns EXCEPT ![Conn(t)].data_flags = CloseEvents,
                                    ![Conn(t)].data_private = t]
          /\ Call(t, "sem_init")
          /\ Goto(t, "data_event")
     ELSE /\ Goto(t, "irqrestore")
          /\ UNCHANGED <<sem, conns, log>>
  /\ UNCHANGED <<socks, dev, irq, sockfd, ret, errno, seen, ev>>

\* the coordinator without the assignment of data_event
AttachEvent_missing(t) ==
  /\ pc[t] = "data_event"
  /\ Runs(t)
  /\ Goto(t, "netdev_txnotify")
  /\ UNCHANGED <<socks, conns, dev, irq, sockfd, ret, errno, sem, log, seen, ev>>

\* conn->data_event = netclose_interrupt (line 166)
AttachEvent(t) ==
  /\ pc[t] = "data_event"
  /\ Runs(t)
  /\ conns' = [conns EXCEPT ![Conn(t)].data_event = "netclose_interrupt"]
  /\ Goto(t, "netdev_txnotify")
  /\ UNCHANGED <<socks, dev, irq, sockfd, ret, errno, sem, log, seen, ev>>

\* the coordinator initialising its semaphore after netdev_txnotify: a post
\* made during the driver poll is overwritten
NetdevTxnotify_reinit(t) ==
  /\ pc[t] = "netdev_txnotify"
  /\ Runs(t)
  /\ \/ UNCHANGED <<conns, dev, sem, seen>>
     \/ \E f \in EngineEvents :
          LET r == netclose_interrupt([dev EXCEPT !.d_len = 0], conns[Conn(t)], f) IN
            /\ conns' = [conns EXCEPT ![Conn(t)] = r.conn]
            /\ dev' = r.dev
            /\ sem' = [sem EXCEPT ![t] = [state |-> "init", count |-> 0, posts |-> 0]]
            /\ seen' = [seen EXCEPT ![t] = @ \cup {IF IsTerminal(f) THEN "terminal" ELSE "other"}]
  /\ Call(t, "netdev_txnotify")
  /\ Goto(t, "sem_wait")
  /\ UNCHANGED <<socks, irq, sockfd, ret, errno, ev>>

\* netdev_txnotify(&conn->ripaddr): the driver may poll the engine at once,
\* and the poll may run the connection's callback
NetdevTxnotify(t) ==
  /\ pc[t] = "netdev_txnotify"
  /\ Runs(t)
  /\ \/ UNCHANGED <<conns, dev, sem, seen>>
     \/ \E f \in EngineEvents : Deliver(Conn(t), f, 0)
  /\ Call(t, "netdev_txnotify")
  /\ Goto(t, "sem_wait")
  /\ UNCHANGED <<socks, irq, sockfd, ret, errno, ev>>

\* sem_wait that keeps the interrupt mask of the caller while it is suspended
SemWait_masked(t) ==
  /\ pc[t] = "sem_wait"
  /\ Runs(t)
  /\ Call(t, "sem_wait")
  /\ IF sem[t].count > 0
     THEN /\ sem' = [sem EXCEPT ![t].count = @ - 1]
          /\ Goto(t, "sem_destroy")
     ELSE /\ Goto(t, "blocked")
          /\ UNCHANGED sem
  /\ UNCHANGED <<socks, conns, dev, irq, sockfd, ret, errno, seen, ev>>

\* sem_wait(&state.cl_sem): takes the count, or blocks; blocking switches to
\* another task and with it to that task's interrupt state
SemWait(t) ==
  /\ pc[t] = "sem_wait"
  /\ Runs(t)
  /\ Call(t, "sem_wait")
  /\ IF sem[t].count > 0
     THEN /\ sem' = [sem EXCEPT ![t].count = @ - 1]
          /\ Goto(t, "sem_destroy")
          /\ UNCHANGED irq
     ELSE /\ Goto(t, "blocked")
          /\ irq' = NoTask
          /\ UNCHANGED sem
  /\ UNCHANGED <<socks, conns, dev, sockfd, ret, errno, seen, ev>>

\* sem_wait returns: the semaphore was posted; the task resumes with its own
\* interrupt state, the mask it held when it blocked
Wake(t) ==
  /\ pc[t] = "blocked"
  /\ irq = NoTask
  /\ sem[t].count > 0
  /\ sem' = [sem EXCEPT ![t].count = @ - 1]
  /\ irq' = t
  /\ Goto(t, "sem_destroy")
  /\ UNCHANGED <<socks, conns, dev, sockfd, ret, errno, log, seen, ev>>

\* sem_destroy(&state.cl_sem)
SemDestroy(t) ==
  /\ pc[t] = "sem_destroy"
  /\ Runs(t)
  /\ sem' = [sem EXCEPT ![t].state = "destroyed"]
  /\ Call(t, "sem_destroy")
  /\ Goto(t, "detach")
  /\ UNCHANGED <<socks, conns, dev, irq, sockfd, ret, errno, seen, ev>>

\* conn->data_flags = 0; conn->data_private = NULL; conn->data_event = NULL
Detach(t) ==
  /\ pc[t] = "detach"
  /\ Runs(t)
  /\ conns' = [conns EXCEPT ![Conn(t)].data_flags = 0,
                            ![Conn(t)].data_private = NULL,
                            ![Conn(t)].data_event = "NULL"]
  /\ Goto(t, "irqrestore")
  /\ UNCHANGED <<socks, dev, irq, sockfd, ret, errno, sem, log, seen, ev>>

\* irqrestore(flags)
IrqRestore(t) ==
  /\ pc[t] = "irqrestore"
  /\ Runs(t)
  /\ irq' = NoTask
  /\ Call(t, "irqrestore")
  /\ Goto(t, "uip_tcpfree")
  /\ UNCHANGED <<socks, conns, dev, sockfd, ret, errno, sem, seen, ev>>

(***************************************************************************)
(* net_close, after the coordinator                                        *)
(***************************************************************************)
\* uip_tcpfree(conn)
UipTcpfree(t) ==
  /\ pc[t] = "uip_tcpfree"
  /\ Runs(t)
  /\ conns' = [conns EXCEPT ![Conn(t)].allocated = FALSE]
  /\ Call(t, "uip_tcpfree")
  /\ Goto(t, "sockfd_release")
  /\ UNCHANGED <<socks, dev, irq, sockfd, ret, errno, sem, seen, ev>>

\* uip_udpfree(psock->s_conn)
UipUdpfree(t) ==
  /\ pc[t] = "uip_udpfree"
  /\ Runs(t)
  /\ conns' = [conns EXCEPT ![Conn(t)].allocated = FALSE]
  /\ Call(t, "uip_udpfree")
  /\ Goto(t, "sockfd_release")
  /\ UNCHANGED <<socks, dev, irq, sockfd, ret, errno, sem, seen, ev>>

\* sockfd_release(sockfd); return OK
SockfdRelease(t) ==
  /\ pc[t] = "sockfd_release"
  /\ Runs(t)
  /\ socks' = [socks EXCEPT ![Psock(t)].s_crefs = @ - 1]
  /\ Call(t, "sockfd_release")
  /\ ret' = [ret EXCEPT ![t] = "OK"]
  /\ Goto(t, "done")
  /\ UNCHANGED <<conns, dev, irq, sockfd, errno, sem, seen, ev>>

(***************************************************************************)
(* The event context: the engine runs the notifier on a stream connection  *)
(* that is in use, when no task masks interrupts.                          *)
(***************************************************************************)
EngineConns ==
  { c \in Fds : conns[c].allocated /\ \E fd \in Fds :
                  socks[fd].s_conn = c /\ socks[fd].s_type = "SOCK_STREAM" }

NetEvent(c, flags, len) ==
  /\ irq = NoTask
  /\ c \in EngineConns
  /\ Deliver(c, flags, len)
  /\ UNCHANGED <<socks, irq, pc, sockfd, ret, errno, log, ev>>

(***************************************************************************)
(* One close at a time on a descriptor (the scheduling model: one task     *)
(* context per close call, and the event context).                         *)
(***************************************************************************)
Exclusive(t, fd) == \A u \in Tasks \ {t} : InClose(u) => sockfd[u] # fd

TaskStep(t) ==
  \/ \E fd \in FdInputs : Exclusive(t, fd) /\ NetCloseCall(t, fd)
  \/ UipUnlisten(t)
  \/ IrqSave(t)
  \/ Attach(t)
  \/ AttachEvent(t)
  \/ NetdevTxnotify(t)
  \/ SemWait(t)
  \/ Wake(t)
  \/ SemDestroy(t)
  \/ Detach(t)
  \/ IrqRestore(t)
  \/ UipTcpfree(t)
  \/ UipUdpfree(t)
  \/ SockfdRelease(t)

Next ==
  \/ \E t \in Tasks : TaskStep(t)
  \/ \E c \in Fds, f \in EngineEvents, len \in {0, MaxPktLen} : NetEvent(c, f, len)

Spec == Init /\ [][Next]_vars

(***************************************************************************)
(* Close calls in any interleaving: net_close does not look for another    *)
(* call in progress on the descriptor, and tasks that share the socket     *)
(* table may close one descriptor at the same time.                        *)
(***************************************************************************)
TaskStepShared(t) ==
  \/ \E fd \in FdInputs : NetCloseCall(t, fd)
  \/ UipUnlisten(t)
  \/ IrqSave(t)
  \/ Attach(t)
  \/ AttachEvent(t)
  \/ NetdevTxnotify(t)
  \/ SemWait(t)
  \/ Wake(t)
  \/ SemDestroy(t)
  \/ Detach(t)
  \/ IrqRestore(t)
  \/ UipTcpfree(t)
  \/ UipUdpfree(t)
  \/ SockfdRelease(t)

NextShared ==
  \/ \E t \in Tasks : TaskStepShared(t)
  \/ \E c \in Fds, f \in EngineEvents, len \in {0, MaxPktLen} : NetEvent(c, f, len)

SpecShared == Init /\ [][NextShared]_vars

\* the scheduler runs every task that can run
FairSpec == Spec /\ \A t \in Tasks : WF_vars(TaskStep(t))

(***************************************************************************)
(* The notifier alone: netclose_interrupt applied to every flags byte, on  *)
(* a connection record with or without a wait context attached.            *)
(***************************************************************************)
InitNotifier ==
  /\ socks = [fd \in Fds |->
                [s_type |-> "SOCK_STREAM", s_crefs |-> 1,
                 s_flags |-> {"_SF_CONNECTED"}, s_conn |-> fd]]
  /\ \E p \in {NULL} \cup Tasks, df \in {0, CloseEvents},
        e \in {"NULL", "netclose_interrupt"} :
       conns = [c \in Fds |->
                  IF c = 0
                  THEN [data_flags |-> df, data_private |-> p, data_event |-> e,
                        listening |-> FALSE, allocated |-> TRUE]
                  ELSE ConnIdle(FALSE)]
  /\ dev = [d_len |-> 0]
  /\ irq = NoTask
  /\ pc = [t \in Tasks |-> "blocked"]
  /\ sockfd = [t \in Tasks |-> 0]
  /\ ret = [t \in Tasks |-> "none"]
  /\ errno = [t \in Tasks |-> "none"]
  /\ sem = [t \in Tasks |-> [state |-> "init", count |-> 0, posts |-> 0]]
  /\ log = [t \in Tasks |-> << >>]
  /\ seen = [t \in Tasks |-> {}]
  /\ ev = EvNone

\* one application of the notifier to the inputs drawn
Invoke(c, flags, len) ==
  /\ ~ev.called
  /\ DeliverRecorded(c, flags, len)
  /\ UNCHANGED <<socks, irq, pc, sockfd, ret, errno, log>>

NextNotifier ==
  \E c \in Fds, flags \in Uint8, len \in {0, MaxPktLen} : Invoke(c, flags, len)

SpecNotifier == InitNotifier /\ [][NextNotifier]_vars

(***************************************************************************)
(* Properties of the notifier, stated on the bits of the flags byte.       *)
(***************************************************************************)
\* bit number b of x
Bit(x, b) == (x \div (2 ^ b)) % 2 = 1

\* the flags name the end of the connection: bit 4 (UIP_CLOSE) or bit 5 (UIP_ABORT)
Terminal(x) == Bit(x, 4) \/ Bit(x, 5)

\* C6: invoked with no wait context attached, netclose_interrupt returns the
\* flags it was given, whatever they are, and changes nothing: no semaphore is
\* posted, d_len stays, and data_flags, data_private and data_event stay.
C6_NoContextNoOp ==
  (ev.called /\ ev.conn.data_private = NULL) =>
     /\ ev.ret = ev.flags
     /\ sem = ev.sem
     /\ dev.d_len = ev.d_len
     /\ conns[ev.c] = ev.conn

C6_Witness ==
  /\ ev.called
  /\ ev.conn.data_private = NULL
  /\ ev.conn.data_event = "netclose_interrupt"
  /\ ev.flags = 255
  /\ ev.d_len > 0

\* C7: invoked with a wait context attached and flags holding neither
\* UIP_CLOSE nor UIP_ABORT, netclose_interrupt posts no semaphore, leaves the
\* context, the event flags and the callback attached, sets d_len to 0 and
\* returns the flags with UIP_NEWDATA cleared, UIP_CLOSE set and every other
\* bit as given.
C7_NonTerminalRetry ==
  (ev.called /\ ev.conn.data_private # NULL /\ ~Terminal(ev.flags)) =>
     /\ sem = ev.sem
     /\ conns[ev.c] = ev.conn
     /\ dev.d_len = 0
     /\ ev.ret \in Uint8
     /\ ~Bit(ev.ret, 1)
     /\ Bit(ev.ret, 4)
     /\ \A b \in (0..7) \ {1, 4} : Bit(ev.ret, b) = Bit(ev.flags, b)

C7_Witness ==
  /\ ev.called
  /\ ev.conn.data_private # NULL
  /\ ev.flags = UIP_NEWDATA + UIP_ACKDATA
  /\ ev.d_len > 0
  /\ ev.ret = UIP_CLOSE + UIP_ACKDATA

\* C8: invoked with a wait context attached and flags holding UIP_CLOSE or
\* UIP_ABORT, netclose_interrupt sets data_flags to 0 and data_private and
\* data_event to NULL, posts the semaphore of that context once and no other,
\* and returns the flags as given; d_len stays.
C8_TerminalDetachPost ==
  (ev.called /\ ev.conn.data_private # NULL /\ Terminal(ev.flags)) =>
     /\ conns[ev.c] = [ev.conn EXCEPT !.data_flags = 0, !.data_private = NULL,
                                      !.data_event = "NULL"]
     /\ sem = [ev.sem EXCEPT ![ev.conn.data_private] =
                 [@ EXCEPT !.count = @ + 1, !.posts = @ + 1]]
     /\ ev.ret = ev.flags
     /\ dev.d_len = ev.d_len

C8_Witness ==
  /\ ev.called
  /\ ev.conn.data_private # NULL
  /\ ev.flags = UIP_ABORT + UIP_NEWDATA
  /\ ev.d_len > 0
  /\ sem[ev.conn.data_private].count = 1

(***************************************************************************)
(* Properties of net_close and of the coordinator.                         *)
(***************************************************************************)
\* the calls task t has made, as a set
Called(t) == { log[t][i] : i \in 1..Len(log[t]) }

\* how often task t has called f
Count(t, f) == Cardinality({ i \in 1..Len(log[t]) : log[t][i] = f })

\* f was called, and before it g
Before(t, g, f) ==
  \A i \in 1..Len(log[t]) : log[t][i] = f => \E j \in 1..(i - 1) : log[t][j] = g

IsPrefix(a, b) == Len(a) <= Len(b) /\ \A i \in 1..Len(a) : a[i] = b[i]

\* task t's net_close passed the validation
Passed(t) == pc[t] # "idle" /\ ret[t] # "ERROR"

StreamClose(t) == Passed(t) /\ socks[sockfd[t]].s_type = "SOCK_STREAM"
DgramClose(t) == Passed(t) /\ socks[sockfd[t]].s_type = "SOCK_DGRAM"
ConnectedAtClose(t) == "_SF_CONNECTED" \in socks[sockfd[t]].s_flags

\* the positions of a task after its sem_wait has returned
AfterWait == {"sem_destroy", "detach", "irqrestore", "uip_tcpfree", "sockfd_release", "done"}

C2_TerminalEventReleases ==
  \A t \in Tasks :
    ("terminal" \in seen[t]) ~>
       (/\ pc[t] = "done"
        /\ ret[t] = "OK"
        /\ {"uip_tcpfree", "sockfd_release"} \subseteq Called(t))

C2_Witness ==
  \E t \in Tasks :
    /\ seen[t] = {"other", "terminal"}
    /\ pc[t] = "done"
    /\ ret[t] = "OK"

\* C3: closing a stream socket that is not connected, the coordinator does
\* not block, attaches no wait context, leaves data_flags, data_private and
\* data_event as they were and does not call netdev_txnotify; net_close goes
\* on to uip_tcpfree and returns OK.
C3_NotConnectedNoWait ==
  \A t \in Tasks :
    (StreamClose(t) /\ ~ConnectedAtClose(t)) =>
       /\ pc[t] \notin {"data_event", "netdev_txnotify", "sem_wait", "blocked",
                       "sem_destroy", "detach"}
       /\ sem[t] = SemNone
       /\ IsPrefix(log[t], <<"uip_unlisten", "irqsave", "irqrestore",
                             "uip_tcpfree", "sockfd_release">>)
       /\ conns[Conn(t)].data_flags = 0
       /\ conns[Conn(t)].data_private = NULL
       /\ conns[Conn(t)].data_event = "NULL"
       /\ pc[t] = "done" => (ret[t] = "OK" /\ Len(log[t]) = 5)

C3_Witness ==
  \E t \in Tasks :
    /\ StreamClose(t) /\ ~ConnectedAtClose(t)
    /\ pc[t] = "done"
    /\ ~conns[Conn(t)].allocated

\* the descriptor fails net_close's validation
BadDescriptor(fd) ==
  \/ fd \notin Fds
  \/ socks[fd].s_crefs <= 0
  \/ socks[fd].s_type \notin {"SOCK_STREAM", "SOCK_DGRAM"}

\* C4: net_close fails exactly when the descriptor names no socket, a socket
\* with s_crefs <= 0 or a socket that is neither stream nor datagram; it then
\* returns ERROR with errno EBADF, has called no collaborator and has changed
\* no socket and no connection record.
C4_FailureChangesNothing ==
  /\ [] (\A t \in Tasks :
           ret[t] = "ERROR" =>
              (pc[t] = "done" /\ errno[t] = "EBADF" /\ log[t] = << >> /\ sem[t] = SemNone))
  /\ [][ \A t \in Tasks :
           (pc[t] = "idle" /\ pc'[t] # "idle") =>
              /\ (ret'[t] = "ERROR") <=> BadDescriptor(sockfd'[t])
              /\ BadDescriptor(sockfd'[t]) =>
                   /\ pc'[t] = "done"
                   /\ errno'[t] = "EBADF"
                   /\ socks' = socks /\ conns' = conns /\ dev' = dev
                   /\ sem' = sem /\ irq' = irq /\ log' = log ]_vars

C4_Witness ==
  \E t \in Tasks, u \in Tasks :
    /\ ret[u] = "OK"
    /\ ret[t] = "ERROR"
    /\ sockfd[t] = sockfd[u]
    /\ errno[t] = "EBADF"

C9_CloseOrder ==
  \A t \in Tasks :
    StreamClose(t) =>
       /\ \A f \in {"irqsave", "sem_init", "sem_wait"} : Before(t, "uip_unlisten", f)
       /\ Before(t, "irqrestore", "uip_tcpfree")
       /\ Before(t, "uip_tcpfree", "sockfd_release")
       /\ \A f \in Called(t) : Count(t, f) = 1
       /\ (pc[t] = "done" /\ ret[t] = "OK") =>
            {"uip_unlisten", "irqsave", "irqrestore", "uip_tcpfree", "sockfd_release"}
               \subseteq Called(t)
       /\ {"irqsave", "sem_init", "sem_wait", "uip_tcpfree"} \cap Called(t) # {}
            => "uip_unlisten" \in Called(t)
       /\ (pc[t] \in {"irqsave", "connected", "data_event", "netdev_txnotify",
                      "sem_wait", "blocked",
                      "sem_destroy", "detach", "irqrestore", "uip_tcpfree"})
            => ~conns[Conn(t)].listening

C9_Witness ==
  \E t \in Tasks :
    /\ StreamClose(t) /\ ConnectedAtClose(t)
    /\ pc[t] = "done" /\ ret[t] = "OK"
    /\ log[t] = <<"uip_unlisten", "irqsave", "sem_init", "netdev_txnotify", "sem_wait",
                  "sem_destroy", "irqrestore", "uip_tcpfree", "sockfd_release">>

\* C10: closing a datagram socket, net_close does not enter the coordinator:
\* it masks no interrupts, attaches no wait context, installs no callback and
\* does not block; it calls uip_udpfree, then sockfd_release, and returns OK,
\* whatever events the engine delivers meanwhile.
C10_DatagramNoCoordinator ==
  \A t \in Tasks :
    DgramClose(t) =>
       /\ pc[t] \in {"uip_udpfree", "sockfd_release", "done"}
       /\ irq # t
       /\ sem[t] = SemNone
       /\ seen[t] = {}
       /\ IsPrefix(log[t], <<"uip_udpfree", "sockfd_release">>)
       /\ conns[Conn(t)].data_flags = 0
       /\ conns[Conn(t)].data_private = NULL
       /\ conns[Conn(t)].data_event = "NULL"
       /\ pc[t] = "done" =>
            /\ ret[t] = "OK"
            /\ log[t] = <<"uip_udpfree", "sockfd_release">>
            /\ ~conns[Conn(t)].allocated
            /\ socks[sockfd[t]].s_crefs = 0

C10_Witness ==
  \E t \in Tasks, u \in Tasks :
    /\ DgramClose(t)
    /\ pc[t] = "done" /\ ret[t] = "OK"
    /\ pc[u] = "blocked"
    /\ seen[u] = {"other"}

(***************************************************************************)
(* Properties of the coordinator and the notifier together.                *)
(***************************************************************************)
\* the positions of a coordinator between its set-up and its return from sem_wait
Waiting == {"data_event", "netdev_txnotify", "sem_wait", "blocked"}

\* the coordinators that wait on connection c and have not been signalled
Unsignalled(c) ==
  { t \in Tasks : /\ pc[t] \in Waiting
                  /\ Conn(t) = c
                  /\ sem[t].posts = 0 }

\* C11: at any time at most one wait context is attached to a connection
\* record, whatever the interleaving of close calls: no coordinator waits,
\* unsignalled, on a connection whose data_private is not its own context.
C11_OneContextPerConnection ==
  \A c \in Fds :
    /\ Cardinality(Unsignalled(c)) <= 1
    /\ \A t \in Unsignalled(c) : conns[c].data_private = t

\* the positions of a coordinator between its irqsave and its irqrestore,
\* when it is not suspended
Masked == {"connected", "data_event", "netdev_txnotify", "sem_wait",
           "sem_destroy", "detach", "irqrestore"}

\* C12 as stated: sem_wait is called outside the critical section, that is
\* the coordinator has left the critical section (irqrestore) before it calls
\* sem_wait, and does not hold the interrupt mask when it calls it.
C12_WaitOutsideCriticalSection ==
  \A t \in Tasks :
    /\ Before(t, "irqrestore", "sem_wait")
    /\ pc[t] = "sem_wait" => irq # t

\* C12: the coordinator calls sem_wait inside its one irqsave/irqrestore
\* pair, holding the mask; the mask is not held while the coordinator is
\* suspended, so that the notifier can run, and the coordinator holds it
\* again from its resumption to the irqrestore after the cleanup.
C12_MaskDroppedWhileSuspended ==
  \A t \in Tasks :
    /\ pc[t] = "blocked" => irq # t
    /\ pc[t] \in Masked => irq = t
    /\ Before(t, "irqsave", "sem_wait")
    /\ "sem_wait" \in Called(t) =>
         (Count(t, "irqsave") = 1 /\ Count(t, "irqrestore") <= 1)
    /\ \A i \in 1..Len(log[t]) :
         log[t][i] = "irqrestore" /\ "sem_wait" \in Called(t)
           => \E j \in 1..(i - 1) : log[t][j] = "sem_destroy"

\* the notifier has run and posted while the coordinator was suspended
C12_Witness ==
  \E t \in Tasks :
    /\ pc[t] = "blocked"
    /\ irq = NoTask
    /\ sem[t].count = 1
    /\ conns[Conn(t)].data_private = NULL

\* netclose_interrupt can run on connection c: from the engine when no task
\* masks interrupts, or from the driver poll inside netdev_txnotify
CanRun(c) ==
  \/ irq = NoTask
  \/ \E t \in Tasks : pc[t] = "netdev_txnotify" /\ Conn(t) = c

\* the wait context of connection c is attached in full
Attached(c) ==
  LET p == conns[c].data_private IN
    /\ p \in Tasks
    /\ sem[p].state = "init" /\ sem[p].count = 0
    /\ conns[c].data_flags = CloseEvents
    /\ conns[c].data_event = "netclose_interrupt"

\* the three fields of connection c that the close protocol writes
Slot(cs, c) == <<cs[c].data_flags, cs[c].data_private, cs[c].data_event>>

\* C13: in every state in which netclose_interrupt can run on a connection,
\* either the semaphore is initialised to 0, data_flags is
\* UIP_NEWDATA|UIP_CLOSE|UIP_ABORT, data_private is the wait context and
\* data_event is netclose_interrupt, or data_private is NULL; and every write
\* to the three fields is a step of a coordinator that holds the interrupt
\* mask, or the notifier's own clearing of them.
C13_NoTornState ==
  /\ [](\A c \in Fds : CanRun(c) => (conns[c].data_private = NULL \/ Attached(c)))
  /\ [][\A c \in Fds :
          Slot(conns', c) # Slot(conns, c) =>
            \/ \E t \in Tasks : /\ irq = t /\ pc[t] \in Masked /\ Conn(t) = c
                                 /\ pc'[t] # pc[t]
            \/ /\ pc' = pc /\ irq = NoTask
               /\ Slot(conns', c) = <<0, NULL, "NULL">>]_vars

\* the engine can run the notifier on a connection whose context is attached
\* while the coordinator is suspended
C13_Witness ==
  \E t \in Tasks :
    /\ pc[t] = "blocked"
    /\ irq = NoTask
    /\ Conn(t) \in EngineConns
    /\ Attached(Conn(t))
    /\ conns[Conn(t)].data_private = t

\* what an invocation of the notifier on connection c with flags f and a
\* frame of len bytes would do
Invocation(c, f, len) == netclose_interrupt([dev EXCEPT !.d_len = len], conns[c], f)

PostedBeforeWait(t) == pc[t] = "sem_wait" /\ "terminal" \in seen[t]

\* C15: a post made after the wait context is attached and before the
\* coordinator calls sem_wait (during netdev_txnotify) is kept in the
\* semaphore's count; the sem_wait that follows takes it and returns without
\* blocking, and net_close returns OK.
C15_PostBeforeWaitNotLost ==
  /\ [](\A t \in Tasks : PostedBeforeWait(t) => sem[t].count = 1)
  /\ [][\A t \in Tasks :
          (PostedBeforeWait(t) /\ pc'[t] # pc[t]) =>
             /\ pc'[t] = "sem_destroy"
             /\ sem'[t].count = 0]_vars
  /\ \A t \in Tasks :
       PostedBeforeWait(t) ~> (pc[t] = "done" /\ ret[t] = "OK")

\* the driver poll inside netdev_txnotify has delivered the terminal event
C15_Witness ==
  \E t \in Tasks :
    /\ pc[t] = "sem_wait"
    /\ seen[t] = {"terminal"}
    /\ sem[t].count = 1 /\ sem[t].posts = 1
    /\ irq = t
    /\ conns[Conn(t)].data_private = NULL

\* the positions of a coordinator whose semaphore is initialised and not yet
\* destroyed
SemLive == {"data_event", "netdev_txnotify", "sem_wait", "blocked", "sem_destroy"}

\* C16: whenever data_private of a connection is not NULL, it is the wait
\* context of a coordinator that is inside netclose_disconnect on that
\* connection, between its sem_init and its sem_destroy; and no sem_post is
\* applied to a semaphore that is destroyed or that was never initialised.
C16_ContextValidWhileAttached ==
  /\ \A c \in Fds :
       LET p == conns[c].data_private IN
         p # NULL =>
           /\ p \in Tasks
           /\ pc[p] \in SemLive
           /\ Conn(p) = c
           /\ sem[p].state = "init"
  /\ \A t \in Tasks :
       /\ sem[t].state # "posted_dead"
       /\ sem[t].posts > 0 => "sem_init" \in Called(t)
       /\ pc[t] \in {"idle", "done"} => sem[t].state \in {"none", "destroyed"}

\* the notifier has posted the semaphore of a context that is attached and
\* live, and the coordinator has since destroyed the semaphore and returned
C16_Witness ==
  \E t \in Tasks :
    /\ pc[t] = "uip_tcpfree"
    /\ sem[t].state = "destroyed" /\ sem[t].posts = 1
    /\ Conn(t) \in EngineConns
    /\ conns[Conn(t)].data_private = NULL
    /\ irq = NoTask

\* C17: closing a connected stream socket, the coordinator calls
\* netdev_txnotify exactly once: when it calls it the semaphore is
\* initialised and data_flags, data_private and data_event are installed,
\* and it calls sem_wait, and blocks, only after it.
C17_TxNotifyOnceAfterSetup ==
  \A t \in Tasks :
    /\ Count(t, "netdev_txnotify") <= 1
    /\ (StreamClose(t) /\ ConnectedAtClose(t)
          /\ pc[t] \in {"sem_wait", "blocked"} \cup AfterWait)
         => Count(t, "netdev_txnotify") = 1
    /\ pc[t] = "netdev_txnotify" =>
         /\ Count(t, "netdev_txnotify") = 0
         /\ Attached(Conn(t))
         /\ conns[Conn(t)].data_private = t
    /\ Before(t, "sem_init", "netdev_txnotify")
    /\ Before(t, "netdev_txnotify", "sem_wait")
    /\ pc[t] = "blocked" => "netdev_txnotify" \in Called(t)

\* the coordinator has notified the driver and is suspended in sem_wait
C17_Witness ==
  \E t \in Tasks :
    /\ StreamClose(t) /\ ConnectedAtClose(t)
    /\ pc[t] = "blocked"
    /\ log[t] = <<"uip_unlisten", "irqsave", "sem_init", "netdev_txnotify", "sem_wait">>
    /\ seen[t] = {}

\* C18: whenever net_close calls uip_tcpfree on a connection, data_private
\* and data_event of the connection are NULL and no coordinator is blocked
\* on it; and a freed connection record has no callback and no wait context,
\* so that the engine does not invoke netclose_interrupt on it.
C18_NotFreedWhilePending ==
  /\ \A t \in Tasks :
       (pc[t] = "uip_tcpfree" /\ Runs(t)) =>
         /\ conns[Conn(t)].data_private = NULL
         /\ conns[Conn(t)].data_event = "NULL"
         /\ \A u \in Tasks : ~(pc[u] = "blocked" /\ Conn(u) = Conn(t))
  /\ \A c \in Fds :
       ~conns[c].allocated =>
         /\ conns[c].data_private = NULL
         /\ conns[c].data_event = "NULL"

====
